---- MODULE Spec2Model ----
(***************************************************************************)
(* A model of douban_book_list:                                            *)
(*   fetch_douban_wish.py        the pagination driver fetch_wish_list,    *)
(*                               the scrape main, extract_book_id,         *)
(*                               parse_books, parse_pub_info;              *)
(*   build_markdown_from_json.py the image acquirer (attach_existing_images*)
(*                               and download_images), the page chunking   *)
(*                               of main, prepare_page_books, render_cell, *)
(*                               expected_cover_path.                      *)
(*                                                                         *)
(* Python values are represented as follows.                               *)
(*   str            a sequence of one-character strings                    *)
(*   Optional[T]    None is <<>>, a value v is <<v>>                        *)
(*   list           a sequence                                             *)
(***************************************************************************)
EXTENDS Integers, Sequences, FiniteSets, TLC

VARIABLES
  \* ---- fetch_douban_wish.py: fetch_wish_list and main -------------------
  source,      \* the remote wish list: page number -> [n, has_next]
  max_pages,   \* Optional[int], the --max-pages argument
  start,       \* the offset cursor
  page,        \* the count of pages fetched
  page_books,  \* the records parsed from the page just fetched
  has_next,    \* the has_next flag parsed from the page just fetched
  yi,          \* position of the for loop over page_books (1-based)
  f_pc,        \* "fetch" | "yield" | "done" | "raised" | "saved" | "idle"
  books_out,   \* main's list(fetch_wish_list(...)), as collected so far
  requests,    \* history: the offsets passed to fetch_page_html, in order
  output_file, \* Optional[list]: the JSON file written by main
  \* ---- fetch_douban_wish.py: the link of one item in parse_books --------
  x_href,      \* Optional[str]: the href of the item's title anchor
  x_url,       \* the record's douban_url
  x_id,        \* Optional[str]: the record's book_id
  x_pc,        \* "parse" | "parsed" | "idle"
  \* ---- fetch_douban_wish.py: parse_books ---------------------------------
  items,       \* soup.select("li.subject-item"): the items of the page
  next_link,   \* whether the page has a "span.next a" element
  item_i,      \* position of "for li in items" (1-based)
  p_books,     \* the list books built so far
  p_pc,        \* "parse" | "returned" | "raised" | "idle"
  \* ---- fetch_douban_wish.py: parse_pub_info ------------------------------
  pub_text,    \* the argument
  pub_info,    \* Optional: the tuple returned
  pub_pc,      \* "call" | "returned" | "idle"
  \* ---- build_markdown_from_json.py: expected_cover_path ------------------
  k_book,      \* the book argument
  k_paths,     \* the paths returned by the calls made so far, in order
  k_pc,        \* "call" | "idle"
  \* ---- build_markdown_from_json.py --------------------------------------
  input,          \* the records of the JSON file, as load_books reads them
  output_path,    \* the --output argument
  mode,           \* "main": a run of main; "call": download_images called
  books,          \* the list of Book objects of the run
  files,          \* the paths at which a file exists
  img_dir_exists, \* whether the cache directory exists
  run,            \* 1 in the first run of main, 2 in the second
  r_pc,           \* the position of the run
  skip_download,  \* the --skip-download flag
  batch,          \* download_images: its books argument, as positions
  dl_i,           \* download_images: position of "for book in books"
  tries,          \* download_images: passes of the retry loop completed
  max_retries,    \* download_images: its max_retries argument
  failures,       \* download_images: the failures list, as positions
  args,           \* the --columns and --rows-per-page arguments
  columns,        \* main: the clamped column count
  rows_per_page,  \* main: the clamped rows per page
  pages,          \* main: the list of page subsets
  idx,            \* main: position of the loop over pages (1-based)
  documents,      \* the documents written: path -> table
  saved_paths,    \* main: saved_paths
  fetch_log,      \* history: the image fetch attempts of this run, in order
  sleep_log,      \* history: the records time.sleep was called for, in order
  attached,       \* history: the positions the pre-pass of this run matched
  after1,         \* history: the books as the first run left them
  reused          \* main: the count attach_existing_images returned

fetchVars == <<source, max_pages, start, page, page_books, has_next, yi, f_pc,
               books_out, requests, output_file>>

idVars == <<x_href, x_url, x_id, x_pc>>

parseVars == <<items, next_link, item_i, p_books, p_pc>>

pubVars == <<pub_text, pub_info, pub_pc>>

keyVars == <<k_book, k_paths, k_pc>>

envVars == <<input, output_path, mode>>

acqVars == <<batch, dl_i, tries, max_retries, failures>>

pageVars == <<args, columns, rows_per_page, pages, idx, documents,
              saved_paths>>

histVars == <<fetch_log, sleep_log, attached, after1, reused>>

renderVars == <<envVars, books, files, img_dir_exists, run, r_pc,
                skip_download, acqVars, pageVars, histVars>>

vars == <<fetchVars, idVars, parseVars, pubVars, keyVars, renderVars>>

\* ------------------------------------------------------------------------
\* Python values
\* ------------------------------------------------------------------------
None == <<>>

Some(v) == <<v>>

\* bool(x) of an Optional[int]
TruthyInt(o) == o # <<>> /\ o[1] # 0

\* ------------------------------------------------------------------------
\* Python strings and paths
\* ------------------------------------------------------------------------
\* bool(s) of an Optional[str]
TruthyStr(o) == o # <<>> /\ o[1] # <<>>

\* (o or "") of an Optional[str]
OrEmpty(o) == IF o = <<>> THEN <<>> ELSE o[1]

\* s.startswith(p)
StartsWith(s, p) == Len(s) >= Len(p) /\ SubSeq(s, 1, Len(p)) = p

\* s.find(c) + 1: the first position of character c in s, 0 when absent
IndexOf(s, c) ==
  IF \E i \in 1..Len(s) : s[i] = c
    THEN CHOOSE i \in 1..Len(s) : s[i] = c /\ \A j \in 1..(i - 1) : s[j] # c
    ELSE 0

\* s.rfind(c) + 1: the last position of character c in s, 0 when absent
RIndexOf(s, c) ==
  IF \E i \in 1..Len(s) : s[i] = c
    THEN CHOOSE i \in 1..Len(s) : s[i] = c /\ \A j \in (i + 1)..Len(s) : s[j] # c
    ELSE 0

\* s.split(c)[0]
BeforeFirst(s, c) ==
  LET i == IndexOf(s, c) IN IF i = 0 THEN s ELSE SubSeq(s, 1, i - 1)

HTTP == <<"h", "t", "t", "p", ":", "/", "/">>

HTTPS == <<"h", "t", "t", "p", "s", ":", "/", "/">>

\* s.startswith(("http://", "https://"))
IsRemote(s) == StartsWith(s, HTTP) \/ StartsWith(s, HTTPS)

\* os.path.splitext(p)[1]: from the last dot of the last path component,
\* unless that component is nothing but leading dots before it.
splitext_ext(p) ==
  LET sep == RIndexOf(p, "/")
      dot == RIndexOf(p, ".")
  IN  IF dot > sep /\ (\E k \in (sep + 1)..(dot - 1) : p[k] # ".")
        THEN SubSeq(p, dot, Len(p))
        ELSE <<>>

Whitespace == {" ", "\t", "\n", "\r"}

\* s.strip()
strip(s) ==
  LET keep == {i \in 1..Len(s) : s[i] \notin Whitespace}
  IN  IF keep = {} THEN <<>>
      ELSE SubSeq(s, CHOOSE i \in keep : \A j \in keep : i <= j,
                     CHOOSE i \in keep : \A j \in keep : i >= j)

\* The characters [A-Za-z0-9._-]
SafeChars ==
  {
    "A", "B", "C", "D", "E", "F", "G", "H", "I", "J", "K", "L", "M",
    "N", "O", "P", "Q", "R", "S", "T", "U", "V", "W", "X", "Y", "Z",
    "a", "b", "c", "d", "e", "f", "g", "h", "i", "j", "k", "l", "m",
    "n", "o", "p", "q", "r", "s", "t", "u", "v", "w", "x", "y", "z",
    "0", "1", "2", "3", "4", "5", "6", "7", "8", "9", ".", "_", "-"
  }

COVER == <<"c", "o", "v", "e", "r">>

\* re.sub(r"[^A-Za-z0-9._-]+", "_", name.strip()) or "cover"
safe_filename(name) ==
  LET s == strip(name)
      sub[i \in 0..Len(s)] ==
        IF i = 0 THEN <<>>
        ELSE IF s[i] \in SafeChars THEN Append(sub[i - 1], s[i])
        ELSE IF i > 1 /\ s[i - 1] \notin SafeChars THEN sub[i - 1]
        ELSE Append(sub[i - 1], "_")
  IN  IF sub[Len(s)] # <<>> THEN sub[Len(s)] ELSE COVER

\* Path(a) / b, for a relative b
PathJoin(a, b) == a \o <<"/">> \o b

\* ------------------------------------------------------------------------
\* The strings of the render model
\* ------------------------------------------------------------------------
IMG_DIR == <<"i", "m", "g">>

JPG == <<".", "j", "p", "g">>

URL_1 == <<"h", "t", "t", "p", "s", ":", "/", "/", "d", "/", "1", "/">>

URL_2 == <<"h", "t", "t", "p", "s", ":", "/", "/", "d", "/", "2", "/">>

\* hashlib.md5(url.encode("utf-8")).hexdigest()[:10], tabulated for the
\* source URLs of the model
md5_hex10(url) ==
  CASE url = URL_1 -> <<"f", "8", "9", "d", "a", "1", "4", "3", "4", "3">>
    [] url = URL_2 -> <<"2", "7", "f", "e", "8", "4", "5", "6", "8", "b">>

REMOTE_PNG == <<"h", "t", "t", "p", "s", ":", "/", "/", "i", "/", "c", ".", "p", "n", "g", "?", "v", "=", "1">>

REMOTE_NOEXT == <<"h", "t", "t", "p", ":", "/", "/", "i", "/", "c">>

LOCAL_PRESENT == <<"p", "i", "c", "s", "/", "x", ".", "p", "n", "g">>

LOCAL_MISSING == <<"p", "i", "c", "s", "/", "y", ".", "j", "p", "g">>

\* ------------------------------------------------------------------------
\* build_markdown_from_json.py: the record and the cache key
\* ------------------------------------------------------------------------
\* The Book dataclass; the fields the render stage never reads keep the
\* values load_books gave them.
Book(title, douban_url, cover_image, book_id, raw_pub) ==
  [title |-> title, douban_url |-> douban_url, cover_image |-> cover_image,
   authors |-> <<>>, publisher |-> None, publish_date |-> None,
   rating |-> None, rating_count |-> None, summary |-> None,
   raw_pub |-> raw_pub, book_id |-> book_id, added_at |-> None]

\* A variant of expected_cover_path that takes the title before the hash of
\* the source URL.
expected_cover_path_title_first(book, img_dir) ==
  LET e == splitext_ext(BeforeFirst(OrEmpty(book.cover_image), "?"))
      ext == IF e # <<>> THEN e ELSE JPG
      identifier ==
        IF TruthyStr(book.book_id) THEN book.book_id[1]
        ELSE IF book.title # <<>> THEN book.title
        ELSE IF book.douban_url # <<>> THEN md5_hex10(book.douban_url)
        ELSE <<>>
  IN  PathJoin(img_dir,
               safe_filename(IF identifier # <<>> THEN identifier ELSE COVER)
                 \o ext)

\* expected_cover_path(book, img_dir), as str
expected_cover_path(book, img_dir) ==
  LET e == splitext_ext(BeforeFirst(OrEmpty(book.cover_image), "?"))
      ext == IF e # <<>> THEN e ELSE JPG
      identifier ==
        IF TruthyStr(book.book_id) THEN book.book_id[1]
        ELSE IF book.douban_url # <<>> THEN md5_hex10(book.douban_url)
        ELSE book.title
  IN  PathJoin(img_dir,
               safe_filename(IF identifier # <<>> THEN identifier ELSE COVER)
                 \o ext)

\* ------------------------------------------------------------------------
\* Bounds
\* ------------------------------------------------------------------------
\* fetch_wish_list: pages of the source, records per page, largest page cap
MaxSrcPages == 3

MaxPerPage == 2

MaxCap == 3

\* extract_book_id: pieces a link is put together from
MaxUrlParts == 4

\* the acquisition stage: records of the JSON file
MaxBooks == 2

\* the page chunking: records of the JSON file, largest columns / rows
MaxPageBooks == 14

MaxGeometry == 3

\* parse_books: items of a page
MaxItems == 2

\* parse_pub_info: pieces a publication line is put together from
MaxPubParts == 4

\* expected_cover_path: calls on one book
MaxCalls == 2

PAGINATION_SIZE == 15

\* ------------------------------------------------------------------------
\* fetch_douban_wish.py
\* ------------------------------------------------------------------------
EmptyPage == [n |-> 0, has_next |-> FALSE]

\* The page the site serves for ?start=<offset>: an offset past the end of
\* the list is an empty page.
PageAt(src, offset) ==
  LET p == (offset \div PAGINATION_SIZE) + 1
  IN  IF p \in DOMAIN src THEN src[p] ELSE EmptyPage

\* parse_books on the markup of page p: the records in document order
\* (a record is named by its page and its position) and the has_next flag.
parse_books(p, markup) ==
  [books |-> [k \in 1..markup.n |-> <<p, k>>], has_next |-> markup.has_next]

\* A variant of CapReached that tests page > max_pages.
CapReachedOff(cap, pg) == TruthyInt(cap) /\ pg > cap[1]

\* if max_pages and page >= max_pages
CapReached(cap, pg) == TruthyInt(cap) /\ pg >= cap[1]

\* A variant of FetchRaises that retries the failed page instead of raising.
FetchRaisesRetry ==
  /\ f_pc = "fetch"
  /\ requests' = Append(requests, start)
  /\ f_pc' = "fetch"
  /\ Len(requests) < MaxSrcPages + 2
  /\ UNCHANGED <<renderVars, idVars, parseVars, pubVars, keyVars,
                 source, max_pages, start, page, page_books, has_next, yi, books_out, output_file>>

\* fetch_page_html raises (transport error or non-2xx status): the
\* exception leaves the generator and list(...) in main.
FetchRaises ==
  /\ f_pc = "fetch"
  /\ requests' = Append(requests, start)
  /\ f_pc' = "raised"
  /\ UNCHANGED <<renderVars, idVars, parseVars, pubVars, keyVars,
                 source, max_pages, start, page, page_books, has_next, yi, books_out, output_file>>

\* A variant of FetchPage without the empty-page break.
FetchPageNoEmptyBreak ==
  /\ f_pc = "fetch"
  /\ LET parsed == parse_books(page + 1, PageAt(source, start))
     IN  /\ requests' = Append(requests, start)
         /\ page' = page + 1
         /\ page_books' = parsed.books
         /\ has_next' = parsed.has_next
         /\ yi' = 1
         /\ f_pc' = "yield"
  /\ UNCHANGED <<renderVars, idVars, parseVars, pubVars, keyVars,
                 source, max_pages, start, books_out, output_file>>

\* One pass of the while loop up to the empty-page test.
FetchPage ==
  /\ f_pc = "fetch"
  /\ LET parsed == parse_books(page + 1, PageAt(source, start))
     IN  /\ requests' = Append(requests, start)
         /\ page' = page + 1
         /\ page_books' = parsed.books
         /\ has_next' = parsed.has_next
         /\ yi' = 1
         /\ f_pc' = IF parsed.books = <<>> THEN "done" ELSE "yield"
  /\ UNCHANGED <<renderVars, idVars, parseVars, pubVars, keyVars,
                 source, max_pages, start, books_out, output_file>>

\* A variant of YieldBook that yields the page from its last record back.
YieldBookReversed ==
  /\ f_pc = "yield"
  /\ yi <= Len(page_books)
  /\ books_out' = Append(books_out, page_books[Len(page_books) + 1 - yi])
  /\ yi' = yi + 1
  /\ UNCHANGED <<renderVars, idVars, parseVars, pubVars, keyVars,
                 source, max_pages, start, page, page_books, has_next, f_pc, requests, output_file>>

\* for book in page_books: yield book   (consumed by list(...) in main)
YieldBook ==
  /\ f_pc = "yield"
  /\ yi <= Len(page_books)
  /\ books_out' = Append(books_out, page_books[yi])
  /\ yi' = yi + 1
  /\ UNCHANGED <<renderVars, idVars, parseVars, pubVars, keyVars,
                 source, max_pages, start, page, page_books, has_next, f_pc, requests, output_file>>

\* A variant of AfterPage without the has_next test.
AfterPageIgnoresNext ==
  /\ f_pc = "yield"
  /\ yi > Len(page_books)
  /\ IF CapReached(max_pages, page)
       THEN f_pc' = "done" /\ start' = start
       ELSE f_pc' = "fetch" /\ start' = start + PAGINATION_SIZE
  /\ UNCHANGED <<renderVars, idVars, parseVars, pubVars, keyVars,
                 source, max_pages, page, page_books, has_next, yi, books_out, requests, output_file>>

\* After the for loop: the cap test, the has_next test, the cursor advance.
AfterPage ==
  /\ f_pc = "yield"
  /\ yi > Len(page_books)
  /\ IF CapReached(max_pages, page) \/ ~has_next
       THEN f_pc' = "done" /\ start' = start
       ELSE f_pc' = "fetch" /\ start' = start + PAGINATION_SIZE
  /\ UNCHANGED <<renderVars, idVars, parseVars, pubVars, keyVars,
                 source, max_pages, page, page_books, has_next, yi, books_out, requests, output_file>>

\* main: the generator is exhausted, the list is dumped to the output path.
WriteOutput ==
  /\ f_pc = "done"
  /\ output_file' = Some(books_out)
  /\ f_pc' = "saved"
  /\ UNCHANGED <<renderVars, idVars, parseVars, pubVars, keyVars,
                 source, max_pages, start, page, page_books, has_next, yi, books_out, requests>>


\* ------------------------------------------------------------------------
\* fetch_douban_wish.py: the link and the identifier of one item
\* ------------------------------------------------------------------------
SUBJECT == <<"/", "s", "u", "b", "j", "e", "c", "t", "/">>

\* The pattern r"/subject/(\\d+)/" matches url from position i with its
\* group ending at position j: "/subject/", then the two-character escape
\* \\ of the raw string, which is one literal backslash, then one or more
\* letters d, then "/".
PatternMatches(url, i, j) ==
  /\ i + Len(SUBJECT) + 1 <= j
  /\ j + 1 <= Len(url)
  /\ SubSeq(url, i, i + Len(SUBJECT) - 1) = SUBJECT
  /\ url[i + Len(SUBJECT)] = "\\"
  /\ \A k \in (i + Len(SUBJECT) + 1)..j : url[k] = "d"
  /\ url[j + 1] = "/"

\* extract_book_id(url): re.search takes the leftmost match, group(1) is
\* what the parentheses matched.
extract_book_id(url) ==
  LET hits == {i \in 1..Len(url) : \E j \in 1..Len(url) : PatternMatches(url, i, j)}
  IN  IF hits = {} THEN None
      ELSE LET i == CHOOSE h \in hits : \A g \in hits : h <= g
               j == CHOOSE e \in 1..Len(url) : PatternMatches(url, i, e)
           IN  Some(SubSeq(url, i + Len(SUBJECT), j))

\* parse_books: link, douban_url and book_id of an item whose title anchor
\* has the given href (None: no anchor, or an anchor without href)
ParseLink ==
  /\ x_pc = "parse"
  /\ LET link == IF x_href = None THEN None
                 ELSE Some(BeforeFirst(x_href[1], "?"))
     IN  /\ x_url' = OrEmpty(link)
         /\ x_id' = IF TruthyStr(link) THEN extract_book_id(OrEmpty(link))
                    ELSE None
  /\ x_pc' = "parsed"
  /\ UNCHANGED <<x_href, fetchVars, parseVars, pubVars, keyVars, renderVars>>

\* ------------------------------------------------------------------------
\* build_markdown_from_json.py: the acquisition stage
\* ------------------------------------------------------------------------
DEFAULT_MAX_RETRIES == 3

\* The ascending sequence of a finite set of integers
Ascending(S) ==
  [k \in 1..Cardinality(S) |->
     CHOOSE x \in S : Cardinality({y \in S : y < x}) = k - 1]

Range(s) == {s[i] : i \in 1..Len(s)}

\* b.cover_image and not str(b.cover_image).startswith(("http://", "https://"))
\* and Path(b.cover_image).exists()
HasLocalFile(b, fs) ==
  /\ TruthyStr(b.cover_image)
  /\ ~IsRemote(b.cover_image[1])
  /\ b.cover_image[1] \in fs

\* main: missing_local, as positions of books
missing_local(bs, fs) == {i \in 1..Len(bs) : ~HasLocalFile(bs[i], fs)}

\* main: need_download, as positions of books in list order
need_download(bs, fs) ==
  Ascending({i \in missing_local(bs, fs) : TruthyStr(bs[i].cover_image)})

\* A variant of attach_existing_images that stops at the first match.
attach_first_only(bs, img_dir, dir_exists, fs) ==
  LET hits == {i \in 1..Len(bs) : expected_cover_path(bs[i], img_dir) \in fs}
      first == {i \in hits : \A j \in hits : i <= j}
  IN  IF ~dir_exists THEN [books |-> bs, hits |-> {}, matched |-> 0]
      ELSE [books |->
              [i \in 1..Len(bs) |->
                 IF i \in first
                   THEN [bs[i] EXCEPT
                           !.cover_image = Some(expected_cover_path(bs[i], img_dir))]
                   ELSE bs[i]],
            hits |-> first,
            matched |-> Cardinality(first)]

\* A variant of attach_existing_images that counts the files it attached
\* rather than the records it attached them to.
attach_counting_files(bs, img_dir, dir_exists, fs) ==
  LET hits == {i \in 1..Len(bs) : expected_cover_path(bs[i], img_dir) \in fs}
  IN  IF ~dir_exists THEN [books |-> bs, hits |-> {}, matched |-> 0]
      ELSE [books |->
              [i \in 1..Len(bs) |->
                 IF i \in hits
                   THEN [bs[i] EXCEPT
                           !.cover_image = Some(expected_cover_path(bs[i], img_dir))]
                   ELSE bs[i]],
            hits |-> hits,
            matched |->
              Cardinality({expected_cover_path(bs[i], img_dir) : i \in hits})]

\* attach_existing_images(books, img_dir): the books after the loop, the
\* positions at which dest.exists() held, and the count returned
attach_existing_images(bs, img_dir, dir_exists, fs) ==
  LET hits == {i \in 1..Len(bs) : expected_cover_path(bs[i], img_dir) \in fs}
  IN  IF ~dir_exists THEN [books |-> bs, hits |-> {}, matched |-> 0]
      ELSE [books |->
              [i \in 1..Len(bs) |->
                 IF i \in hits
                   THEN [bs[i] EXCEPT
                           !.cover_image = Some(expected_cover_path(bs[i], img_dir))]
                   ELSE bs[i]],
            hits |-> hits,
            matched |-> Cardinality(hits)]

\* main: reused = attach_existing_images(books, img_dir) and its report
AttachExisting ==
  /\ r_pc = "attach"
  /\ LET res == attach_existing_images(books, IMG_DIR, img_dir_exists, files)
     IN  books' = res.books /\ reused' = res.matched /\ attached' = res.hits
  /\ r_pc' = "select"
  /\ UNCHANGED <<envVars, files, img_dir_exists, run, skip_download, acqVars,
                 pageVars, fetch_log, sleep_log, after1, fetchVars, idVars,
                 parseVars, pubVars, keyVars>>

\* The --skip-download flag: an argument of the run, the same in a rerun.
SkipChoices == IF run = 1 THEN BOOLEAN ELSE {skip_download}

\* main: the else branch of "if not args.skip_download"
SkipDownload ==
  /\ r_pc = "select"
  /\ TRUE \in SkipChoices
  /\ skip_download' = TRUE
  /\ r_pc' = "paginate"
  /\ UNCHANGED <<envVars, books, files, img_dir_exists, run, acqVars,
                 pageVars, histVars, fetchVars, idVars,
                 parseVars, pubVars, keyVars>>

\* main: need_download is empty, download_images is not called
NothingToDownload ==
  /\ r_pc = "select"
  /\ FALSE \in SkipChoices
  /\ need_download(books, files) = <<>>
  /\ skip_download' = FALSE
  /\ failures' = <<>>
  /\ batch' = <<>>
  /\ r_pc' = "paginate"
  /\ UNCHANGED <<envVars, books, files, img_dir_exists, run, dl_i, tries,
                 max_retries, pageVars, histVars, fetchVars, idVars,
                 parseVars, pubVars, keyVars>>

\* main: failures = download_images(need_download, img_dir); the call makes
\* the cache directory and starts with no failures
StartDownload ==
  /\ r_pc = "select"
  /\ FALSE \in SkipChoices
  /\ need_download(books, files) # <<>>
  /\ skip_download' = FALSE
  /\ batch' = need_download(books, files)
  /\ max_retries' = DEFAULT_MAX_RETRIES
  /\ img_dir_exists' = TRUE
  /\ failures' = <<>>
  /\ dl_i' = 1
  /\ tries' = 0
  /\ r_pc' = "dl_book"
  /\ UNCHANGED <<envVars, books, files, run, pageVars, histVars, fetchVars,
                 idVars, parseVars, pubVars, keyVars>>

\* download_images(books, img_dir, max_retries = m) called on a whole list
CallDownloadImages ==
  /\ r_pc = "call"
  /\ \E m \in 0..DEFAULT_MAX_RETRIES : max_retries' = m
  /\ batch' = [i \in 1..Len(books) |-> i]
  /\ img_dir_exists' = TRUE
  /\ failures' = <<>>
  /\ dl_i' = 1
  /\ tries' = 0
  /\ r_pc' = "dl_book"
  /\ UNCHANGED <<envVars, books, files, run, skip_download, pageVars,
                 histVars, fetchVars, idVars,
                 parseVars, pubVars, keyVars>>

InBatch == r_pc = "dl_book" /\ dl_i <= Len(batch)

Cur == batch[dl_i]

Dest == expected_cover_path(books[Cur], IMG_DIR)

\* A variant of SetCover that also clears the raw publication line.
SetCoverDropPub(bs, i, c) ==
  [bs EXCEPT ![i].cover_image = c, ![i].raw_pub = None]

\* book.cover_image = c, for the book at position i
SetCover(bs, i, c) == [bs EXCEPT ![i].cover_image = c]

\* A variant of DlNoCover that sleeps before it marks the record failed.
DlNoCoverSleeps ==
  /\ InBatch
  /\ ~TruthyStr(books[Cur].cover_image)
  /\ books' = SetCover(books, Cur, None)
  /\ failures' = Append(failures, Cur)
  /\ sleep_log' = Append(sleep_log, Cur)
  /\ dl_i' = dl_i + 1
  /\ UNCHANGED <<envVars, files, img_dir_exists, run, r_pc, skip_download,
                 batch, tries, max_retries, pageVars, fetch_log, attached,
                 after1, reused, fetchVars, idVars, parseVars, pubVars,
                 keyVars>>

\* for book in books: if not book.cover_image: ... continue
DlNoCover ==
  /\ InBatch
  /\ ~TruthyStr(books[Cur].cover_image)
  /\ books' = SetCover(books, Cur, None)
  /\ failures' = Append(failures, Cur)
  /\ dl_i' = dl_i + 1
  /\ UNCHANGED <<envVars, files, img_dir_exists, run, r_pc, skip_download,
                 batch, tries, max_retries, pageVars, histVars, fetchVars,
                 idVars, parseVars, pubVars, keyVars>>

\* if dest.exists(): book.cover_image = str(dest); continue
DlReuse ==
  /\ InBatch
  /\ TruthyStr(books[Cur].cover_image)
  /\ Dest \in files
  /\ books' = SetCover(books, Cur, Some(Dest))
  /\ dl_i' = dl_i + 1
  /\ UNCHANGED <<envVars, files, img_dir_exists, run, r_pc, skip_download,
                 batch, tries, max_retries, failures, pageVars, histVars,
                 fetchVars, idVars,
                 parseVars, pubVars, keyVars>>

\* A variant of DlBeginRetries without the exists-check before it.
DlBeginRetriesUnchecked ==
  /\ InBatch
  /\ TruthyStr(books[Cur].cover_image)
  /\ tries' = 0
  /\ r_pc' = "dl_try"
  /\ UNCHANGED <<envVars, books, files, img_dir_exists, run, skip_download,
                 batch, dl_i, max_retries, failures, pageVars, histVars,
                 fetchVars, idVars, parseVars, pubVars, keyVars>>

\* success = False; last_err = None; the retry loop is entered
DlBeginRetries ==
  /\ InBatch
  /\ TruthyStr(books[Cur].cover_image)
  /\ Dest \notin files
  /\ tries' = 0
  /\ r_pc' = "dl_try"
  /\ UNCHANGED <<envVars, books, files, img_dir_exists, run, skip_download,
                 batch, dl_i, max_retries, failures, pageVars, histVars,
                 fetchVars, idVars,
                 parseVars, pubVars, keyVars>>

\* A variant of RetriesLeft that allows one attempt more.
RetriesLeftOneMore(t, m) == t <= m

\* for _ in range(max_retries): another pass is due
RetriesLeft(t, m) == t < m

\* session.get can answer only an http(s) URL; any other reference raises.
CanServe(ref) == IsRemote(ref)

\* A variant of DlAttemptOk that stays in the retry loop after a success.
DlAttemptOkNoBreak ==
  /\ r_pc = "dl_try"
  /\ RetriesLeft(tries, max_retries)
  /\ CanServe(books[Cur].cover_image[1])
  /\ sleep_log' = Append(sleep_log, Cur)
  /\ fetch_log' = Append(fetch_log, [book |-> Cur, ok |-> TRUE])
  /\ files' = files \cup {Dest}
  /\ tries' = tries + 1
  /\ UNCHANGED <<envVars, books, img_dir_exists, run, r_pc, skip_download,
                 batch, dl_i, max_retries, failures, pageVars, attached,
                 after1, reused, fetchVars, idVars, parseVars, pubVars,
                 keyVars>>

\* One pass of the retry loop that succeeds: after the sleep the body is
\* fetched and written to dest, the path attached, the loop left.
DlAttemptOk ==
  /\ r_pc = "dl_try"
  /\ RetriesLeft(tries, max_retries)
  /\ CanServe(books[Cur].cover_image[1])
  /\ sleep_log' = Append(sleep_log, Cur)
  /\ fetch_log' = Append(fetch_log, [book |-> Cur, ok |-> TRUE])
  /\ files' = files \cup {Dest}
  /\ books' = SetCover(books, Cur, Some(Dest))
  /\ dl_i' = dl_i + 1
  /\ r_pc' = "dl_book"
  /\ UNCHANGED <<envVars, img_dir_exists, run, skip_download, batch, tries,
                 max_retries, failures, pageVars, attached, after1, reused,
                 fetchVars,
                 idVars, parseVars, pubVars, keyVars>>

\* One pass of the retry loop that raises after the sleep: the exception is
\* swallowed.
DlAttemptFail ==
  /\ r_pc = "dl_try"
  /\ RetriesLeft(tries, max_retries)
  /\ sleep_log' = Append(sleep_log, Cur)
  /\ fetch_log' = Append(fetch_log, [book |-> Cur, ok |-> FALSE])
  /\ tries' = tries + 1
  /\ UNCHANGED <<envVars, books, files, img_dir_exists, run, r_pc,
                 skip_download, batch, dl_i, max_retries, failures, pageVars,
                 attached, after1, reused, fetchVars, idVars,
                 parseVars, pubVars, keyVars>>

\* A variant of DlGiveUp that keeps the reference it could not fetch.
DlGiveUpKeepRef ==
  /\ r_pc = "dl_try"
  /\ ~RetriesLeft(tries, max_retries)
  /\ failures' = Append(failures, Cur)
  /\ dl_i' = dl_i + 1
  /\ r_pc' = "dl_book"
  /\ UNCHANGED <<envVars, books, files, img_dir_exists, run, skip_download,
                 batch, tries, max_retries, pageVars, histVars, fetchVars,
                 idVars, parseVars, pubVars, keyVars>>

\* A variant of DlGiveUp that leaves the batch at the first failure.
DlGiveUpAbort ==
  /\ r_pc = "dl_try"
  /\ ~RetriesLeft(tries, max_retries)
  /\ books' = SetCover(books, Cur, None)
  /\ failures' = Append(failures, Cur)
  /\ dl_i' = Len(batch) + 1
  /\ r_pc' = "dl_book"
  /\ UNCHANGED <<envVars, files, img_dir_exists, run, skip_download, batch,
                 tries, max_retries, pageVars, histVars, fetchVars, idVars,
                 parseVars, pubVars, keyVars>>

\* if not success: book.cover_image = None; failures.append(book)
DlGiveUp ==
  /\ r_pc = "dl_try"
  /\ ~RetriesLeft(tries, max_retries)
  /\ books' = SetCover(books, Cur, None)
  /\ failures' = Append(failures, Cur)
  /\ dl_i' = dl_i + 1
  /\ r_pc' = "dl_book"
  /\ UNCHANGED <<envVars, files, img_dir_exists, run, skip_download, batch,
                 tries, max_retries, pageVars, histVars, fetchVars, idVars,
                 parseVars, pubVars, keyVars>>

\* return failures
DlReturn ==
  /\ r_pc = "dl_book"
  /\ dl_i > Len(batch)
  /\ r_pc' = IF mode = "main" THEN "paginate" ELSE "returned"
  /\ UNCHANGED <<envVars, books, files, img_dir_exists, run, skip_download,
                 acqVars, pageVars, histVars, fetchVars, idVars,
                 parseVars, pubVars, keyVars>>

\* ------------------------------------------------------------------------
\* build_markdown_from_json.py: the renderer
\* ------------------------------------------------------------------------
Max(a, b) == IF a >= b THEN a ELSE b

Min(a, b) == IF a <= b THEN a ELSE b

TRUNCATE_LIMIT == 160

\* The character U+2026
ELLIPSIS == <<"U+2026">>

\* The four characters of the "no information" line
NO_INFO == <<"U+6682", "U+65E0", "U+4FE1", "U+606F">>

\* truncate(text, limit)
truncate(text, limit) ==
  IF Len(text) <= limit THEN text ELSE SubSeq(text, 1, limit - 1) \o ELLIPSIS

\* cover_src.replace("\\", "/")
ReplaceBackslash(s) == [i \in 1..Len(s) |-> IF s[i] = "\\" THEN "/" ELSE s[i]]

\* The card of one cell: an <a><img src=...></a> block or the placeholder
\* <div>, above the metadata line.
Cell(src, href, meta) ==
  IF src # <<>>
    THEN [kind |-> "img", src |-> src, href |-> href, meta |-> meta]
    ELSE [kind |-> "placeholder", src |-> <<>>, href |-> <<>>, meta |-> meta]

\* A variant of render_cell without the local-images-only test.
render_cell_any_src(book) ==
  LET raw == OrEmpty(book.raw_pub)
      meta == IF raw # <<>> THEN truncate(raw, TRUNCATE_LIMIT) ELSE NO_INFO
      src0 == OrEmpty(book.cover_image)
      src1 == IF src0 # <<>> /\ ~StartsWith(src0, <<"/">>) /\ ~IsRemote(src0)
                THEN ReplaceBackslash(src0) ELSE src0
  IN  Cell(src1, book.douban_url, meta)

\* render_cell(book, palette)
render_cell(book) ==
  LET raw == OrEmpty(book.raw_pub)
      meta == IF raw # <<>> THEN truncate(raw, TRUNCATE_LIMIT) ELSE NO_INFO
      src0 == IF IsRemote(OrEmpty(book.cover_image))
                THEN <<>> ELSE OrEmpty(book.cover_image)
      src1 == IF src0 # <<>> /\ ~StartsWith(src0, <<"/">>) /\ ~IsRemote(src0)
                THEN ReplaceBackslash(src0) ELSE src0
  IN  Cell(src1, book.douban_url, meta)

\* books[i : i + size] for i in range(0, len(books), size)
Chunk(s, size) ==
  [k \in 1..((Len(s) + size - 1) \div size) |->
     SubSeq(s, (k - 1) * size + 1, Min(k * size, Len(s)))]

\* build_table(books, columns, palette): the <col> count and the <tr> rows
build_table(bs, ncols) ==
  [cols |-> ncols,
   rows |-> [r \in 1..Len(Chunk(bs, ncols)) |->
               [c \in 1..Len(Chunk(bs, ncols)[r]) |->
                  render_cell(Chunk(bs, ncols)[r][c])]]]

DOT == <<".">>

UP == <<".", ".", "/">>

\* os.path.relpath(Path.cwd() / p, page_dir) with "/" separators, for a
\* relative p and a page_dir that is "." or a directory directly below it
relpath(p, page_dir) == IF page_dir = DOT THEN p ELSE UP \o p

\* prepare_page_books(books, page_dir)
prepare_page_books(bs, page_dir, fs) ==
  [i \in 1..Len(bs) |->
     [bs[i] EXCEPT !.cover_image =
        IF /\ TruthyStr(bs[i].cover_image)
           /\ ~IsRemote(bs[i].cover_image[1])
           /\ bs[i].cover_image[1] \in fs
          THEN Some(relpath(bs[i].cover_image[1], page_dir))
          ELSE None]]

RECURSIVE Digits(_)
\* str(n) of a natural number
Digits(n) ==
  LET d == <<"0", "1", "2", "3", "4", "5", "6", "7", "8", "9">>
  IN  IF n < 10 THEN <<d[n + 1]>> ELSE Digits(n \div 10) \o <<d[(n % 10) + 1]>>

\* Path(p).suffix of a file name
suffix(name) ==
  LET i == RIndexOf(name, ".")
  IN  IF 1 < i /\ i < Len(name) THEN SubSeq(name, i, Len(name)) ELSE <<>>

\* Path(p).stem of a file name
stem(name) == SubSeq(name, 1, Len(name) - Len(suffix(name)))

\* Path(p).parent, as str
parent(p) ==
  LET i == RIndexOf(p, "/") IN IF i = 0 THEN DOT ELSE SubSeq(p, 1, i - 1)

MD == <<".", "m", "d">>

INDEX == <<"i", "n", "d", "e", "x">>

\* main: out_path of page idx, for an output path in the working directory
out_path(base, i) ==
  IF i = 1 THEN base
  ELSE PathJoin(stem(base) \o <<"_">> \o Digits(i),
                INDEX \o (IF suffix(base) # <<>> THEN suffix(base) ELSE MD))

\* A variant of PageSlices whose pages overlap by one record.
PageSlicesOverlap(bs, ncols, nrows) ==
  [k \in 1..((Len(bs) + ncols * nrows - 1) \div (ncols * nrows)) |->
     SubSeq(bs, Max(1, (k - 1) * ncols * nrows),
            Min(k * ncols * nrows, Len(bs)))]

\* main: pages, from the clamped columns and rows_per_page
PageSlices(bs, ncols, nrows) == Chunk(bs, ncols * nrows)

\* main: columns and rows_per_page are clamped, the books are cut in pages
Paginate(c, r) ==
  /\ r_pc = "paginate"
  /\ args' = [columns |-> c, rows_per_page |-> r]
  /\ columns' = Max(1, c)
  /\ rows_per_page' = Max(1, r)
  /\ pages' = PageSlices(books, Max(1, c), Max(1, r))
  /\ idx' = 1
  /\ saved_paths' = <<>>
  /\ r_pc' = "write"
  /\ UNCHANGED <<envVars, books, files, img_dir_exists, run, skip_download,
                 acqVars, documents, histVars, fetchVars, idVars,
                 parseVars, pubVars, keyVars>>

\* main: one pass of "for idx, subset in enumerate(pages, start=1)"
WritePage ==
  /\ r_pc = "write"
  /\ idx <= Len(pages)
  /\ LET path == out_path(output_path, idx)
         prepared == prepare_page_books(pages[idx], parent(path), files)
     IN  /\ documents' = (path :> build_table(prepared, columns)) @@ documents
         /\ saved_paths' = Append(saved_paths, path)
  /\ idx' = idx + 1
  /\ UNCHANGED <<envVars, books, files, img_dir_exists, run, r_pc,
                 skip_download, acqVars, args, columns, rows_per_page, pages,
                 histVars, fetchVars, idVars,
                 parseVars, pubVars, keyVars>>

\* main: the summary is printed, the run ends
FinishRun ==
  /\ r_pc = "write"
  /\ idx > Len(pages)
  /\ r_pc' = "end"
  /\ UNCHANGED <<envVars, books, files, img_dir_exists, run, skip_download,
                 acqVars, pageVars, histVars, fetchVars, idVars,
                 parseVars, pubVars, keyVars>>

\* The program is run again on the same JSON file, with the same arguments,
\* against the cache directory the first run left: load_books reads the
\* records anew.
Rerun ==
  /\ r_pc = "end"
  /\ run = 1
  /\ run' = 2
  /\ after1' = books
  /\ books' = input
  /\ fetch_log' = <<>>
  /\ sleep_log' = <<>>
  /\ attached' = {}
  /\ failures' = <<>>
  /\ batch' = <<>>
  /\ dl_i' = 1
  /\ tries' = 0
  /\ r_pc' = "attach"
  /\ UNCHANGED <<envVars, files, img_dir_exists, skip_download, max_retries,
                 pageVars, reused, fetchVars, idVars,
                 parseVars, pubVars, keyVars>>

\* ------------------------------------------------------------------------
\* fetch_douban_wish.py: parse_pub_info
\* ------------------------------------------------------------------------
RECURSIVE split(_, _)
\* s.split(c): the pieces of s between the occurrences of character c
split(s, c) ==
  LET i == IndexOf(s, c)
  IN  IF i = 0 THEN <<s>>
      ELSE <<SubSeq(s, 1, i - 1)>> \o split(SubSeq(s, i + 1, Len(s)), c)

\* bool(s) of a str
NonEmptyStr(s) == s # <<>>

\* [part.strip() for part in pub_text.split("/") if part.strip()]
pub_parts(text) ==
  SelectSeq([k \in 1..Len(split(text, "/")) |-> strip(split(text, "/")[k])],
            NonEmptyStr)

\* A variant of parse_pub_info that reads two segments as publisher and date.
parse_pub_info_two_dated(text) ==
  LET parts == pub_parts(text)
      m == Len(parts)
  IN  IF m = 0
        THEN [authors |-> <<>>, publisher |-> None, publish_date |-> None]
      ELSE IF m >= 3
        THEN [authors |-> SubSeq(parts, 1, m - 2),
              publisher |-> Some(parts[m - 1]),
              publish_date |-> Some(parts[m])]
      ELSE IF m = 2
        THEN [authors |-> <<>>, publisher |-> Some(parts[1]),
              publish_date |-> Some(parts[2])]
      ELSE [authors |-> <<>>, publisher |-> Some(parts[1]),
            publish_date |-> None]

\* parse_pub_info(pub_text): the tuple (authors, publisher, publish_date)
parse_pub_info(text) ==
  LET parts == pub_parts(text)
      m == Len(parts)
  IN  IF m = 0
        THEN [authors |-> <<>>, publisher |-> None, publish_date |-> None]
      ELSE IF m >= 3
        THEN [authors |-> SubSeq(parts, 1, m - 2),
              publisher |-> Some(parts[m - 1]),
              publish_date |-> Some(parts[m])]
      ELSE IF m = 2
        THEN [authors |-> <<parts[1]>>, publisher |-> Some(parts[2]),
              publish_date |-> None]
      ELSE [authors |-> <<>>, publisher |-> Some(parts[1]),
            publish_date |-> None]

\* A call of parse_pub_info(pub_text)
ParsePubInfo ==
  /\ pub_pc = "call"
  /\ pub_info' = Some(parse_pub_info(pub_text))
  /\ pub_pc' = "returned"
  /\ UNCHANGED <<pub_text, fetchVars, idVars, parseVars, keyVars, renderVars>>

\* ------------------------------------------------------------------------
\* fetch_douban_wish.py: parse_books
\* ------------------------------------------------------------------------
\* The four characters of the title of an item without a title anchor
UNKNOWN_TITLE == <<"U+672A", "U+77E5", "U+6807", "U+9898">>

DecimalDigits == <<"0", "1", "2", "3", "4", "5", "6", "7", "8", "9">>

IsDigit(c) == \E d \in 1..10 : DecimalDigits[d] = c

DigitValue(c) == (CHOOSE d \in 1..10 : DecimalDigits[d] = c) - 1

\* The texts float() reads as a plain decimal: digits, at most one point
\* among them, at least one digit.  (float() also reads signs, exponents,
\* "inf" and "nan"; the texts of the model have none of these.)
IsDecimal(text) ==
  /\ \E i \in 1..Len(text) : IsDigit(text[i])
  /\ \A i \in 1..Len(text) : IsDigit(text[i]) \/ text[i] = "."
  /\ Cardinality({i \in 1..Len(text) : text[i] = "."}) <= 1

RECURSIVE DigitsValue(_)
\* The number a string of digits and points stands for, the points left out
DigitsValue(text) ==
  IF text = <<>> THEN 0
  ELSE IF text[Len(text)] = "." THEN DigitsValue(SubSeq(text, 1, Len(text) - 1))
  ELSE 10 * DigitsValue(SubSeq(text, 1, Len(text) - 1))
         + DigitValue(text[Len(text)])

RECURSIVE Reduced(_, _)
\* n / 10^places without trailing zeros in the fraction
Reduced(n, places) ==
  IF places > 0 /\ n % 10 = 0 THEN Reduced(n \div 10, places - 1)
  ELSE [n |-> n, places |-> places]

\* float(text): the pair "ok", value (as n / 10^places), or "ValueError"
float(text) ==
  IF IsDecimal(text)
    THEN LET dot == IndexOf(text, ".")
         IN  [ok |-> TRUE,
              value |-> Reduced(DigitsValue(text),
                                IF dot = 0 THEN 0 ELSE Len(text) - dot)]
    ELSE [ok |-> FALSE, value |-> "ValueError"]

\* The pattern r"(\\d+)" matches text from position i to position j: the
\* two-character escape \\ of the raw string is one literal backslash, then
\* one or more letters d.
CountPatternMatches(text, i, j) ==
  /\ i + 1 <= j
  /\ j <= Len(text)
  /\ text[i] = "\\"
  /\ \A k \in (i + 1)..j : text[k] = "d"

\* re.search(r"(\\d+)", text) finds a match
CountPatternFound(text) ==
  \E i, j \in 1..Len(text) : CountPatternMatches(text, i, j)

\* rating_count of an item whose count element has the given text (None: no
\* such element).  What the pattern matches starts with a backslash, so
\* int() of the group raises.
rating_count(count_text) ==
  IF count_text = None THEN [ok |-> TRUE, value |-> None]
  ELSE IF CountPatternFound(count_text[1])
    THEN [ok |-> FALSE, value |-> "ValueError"]
  ELSE [ok |-> TRUE, value |-> None]

\* rating of an item whose rating element has the given text (None: no such
\* element)
rating(rating_text) ==
  IF rating_text = None THEN [ok |-> TRUE, value |-> None]
  ELSE IF float(rating_text[1]).ok
    THEN [ok |-> TRUE, value |-> Some(float(rating_text[1]).value)]
  ELSE [ok |-> FALSE, value |-> "ValueError"]

MetaClasses == {"rating-info", "pub", "subject-abstract"}

\* summary: the text of the first <p> of the item that has none of the
\* metadata classes and a non-empty text
summary(paragraphs) ==
  LET good == {k \in 1..Len(paragraphs) :
                 /\ paragraphs[k].classes \cap MetaClasses = {}
                 /\ paragraphs[k].text # <<>>}
  IN  IF good = {} THEN None
      ELSE Some(paragraphs[CHOOSE k \in good : \A g \in good : k <= g].text)

\* The body of "for li in items" raises on this item
ItemRaises(li) == ~rating(li.rating_nums).ok \/ ~rating_count(li.rating_people).ok

\* The Book the body of "for li in items" appends for this item
ItemBook(li) ==
  LET link == IF li.title_tag # None /\ li.title_tag[1].href # None
                THEN Some(BeforeFirst(li.title_tag[1].href[1], "?"))
                ELSE None
      pub == OrEmpty(li.pub)
      info == parse_pub_info(pub)
  IN  [title |-> IF li.title_tag # None THEN li.title_tag[1].text
                 ELSE UNKNOWN_TITLE,
       douban_url |-> OrEmpty(link),
       cover_image |-> li.cover_src,
       authors |-> info.authors,
       publisher |-> info.publisher,
       publish_date |-> info.publish_date,
       rating |-> rating(li.rating_nums).value,
       rating_count |-> rating_count(li.rating_people).value,
       summary |-> summary(li.paragraphs),
       raw_pub |-> IF pub # <<>> THEN Some(pub) ELSE None,
       book_id |-> IF TruthyStr(link) THEN extract_book_id(OrEmpty(link))
                   ELSE None,
       added_at |-> li.date]

\* One pass of "for li in items" in which float() or int() raises: the
\* ValueError leaves parse_books.
ParseItemRaises ==
  /\ p_pc = "parse"
  /\ item_i <= Len(items)
  /\ ItemRaises(items[item_i])
  /\ p_pc' = "raised"
  /\ UNCHANGED <<items, next_link, item_i, p_books, fetchVars, idVars, pubVars,
                 keyVars, renderVars>>

\* One pass of "for li in items" that appends the Book of the item
ParseItem ==
  /\ p_pc = "parse"
  /\ item_i <= Len(items)
  /\ ~ItemRaises(items[item_i])
  /\ p_books' = Append(p_books, ItemBook(items[item_i]))
  /\ item_i' = item_i + 1
  /\ UNCHANGED <<items, next_link, p_pc, fetchVars, idVars, pubVars, keyVars,
                 renderVars>>

\* has_next = bool(soup.select_one("span.next a")); return books, has_next
ParseReturn ==
  /\ p_pc = "parse"
  /\ item_i > Len(items)
  /\ p_pc' = "returned"
  /\ UNCHANGED <<items, next_link, item_i, p_books, fetchVars, idVars, pubVars,
                 keyVars, renderVars>>

\* ------------------------------------------------------------------------
\* build_markdown_from_json.py: calls of expected_cover_path
\* ------------------------------------------------------------------------
\* A call of expected_cover_path(book, img_dir) on the same book
DerivePath ==
  /\ k_pc = "call"
  /\ Len(k_paths) < MaxCalls
  /\ k_paths' = Append(k_paths, expected_cover_path(k_book, IMG_DIR))
  /\ UNCHANGED <<k_book, k_pc, fetchVars, idVars, parseVars, pubVars,
                 renderVars>>

\* ------------------------------------------------------------------------
\* Initial states
\* ------------------------------------------------------------------------
FetchIdle ==
  /\ source = <<>> /\ max_pages = None /\ start = 0 /\ page = 0
  /\ page_books = <<>> /\ has_next = FALSE /\ yi = 1 /\ f_pc = "idle"
  /\ books_out = <<>> /\ requests = <<>> /\ output_file = None

IdsIdle == x_href = None /\ x_url = <<>> /\ x_id = None /\ x_pc = "idle"

ParseIdle ==
  /\ items = <<>> /\ next_link = FALSE /\ item_i = 1 /\ p_books = <<>>
  /\ p_pc = "idle"

PubIdle == pub_text = <<>> /\ pub_info = None /\ pub_pc = "idle"

KeyIdle ==
  /\ k_book = Book(<<>>, <<>>, None, None, None) /\ k_paths = <<>>
  /\ k_pc = "idle"

\* Nothing of the scrape stage's parsing or of a lone call is under way.
OthersIdle == ParseIdle /\ PubIdle /\ KeyIdle

\* main's locals before its first statement; the argparse defaults
LocalsAtStart ==
  /\ batch = <<>> /\ dl_i = 1 /\ tries = 0
  /\ max_retries = DEFAULT_MAX_RETRIES /\ failures = <<>>
  /\ args = [columns |-> 3, rows_per_page |-> 10]
  /\ columns = 1 /\ rows_per_page = 1 /\ pages = <<>> /\ idx = 1
  /\ documents = <<>> /\ saved_paths = <<>>
  /\ fetch_log = <<>> /\ sleep_log = <<>> /\ attached = {}
  /\ after1 = <<>> /\ reused = 0

RenderIdle ==
  /\ input = <<>> /\ output_path = <<>> /\ mode = "main" /\ books = <<>>
  /\ files = {} /\ img_dir_exists = FALSE /\ run = 1 /\ r_pc = "idle"
  /\ skip_download = FALSE
  /\ LocalsAtStart

PageShapes == [n : 0..MaxPerPage, has_next : BOOLEAN]

CapChoices == {None} \cup {Some(c) : c \in (-1)..MaxCap}

InitFetch ==
  /\ source \in [1..MaxSrcPages -> PageShapes]
  /\ max_pages \in CapChoices
  /\ start = 0
  /\ page = 0
  /\ page_books = <<>>
  /\ has_next = FALSE
  /\ yi = 1
  /\ f_pc = "fetch"
  /\ books_out = <<>>
  /\ requests = <<>>
  /\ output_file = None
  /\ IdsIdle
  /\ OthersIdle
  /\ RenderIdle

NextFetch ==
  \/ FetchRaises
  \/ FetchPage
  \/ YieldBook
  \/ AfterPage
  \/ WriteOutput

SpecFetch == InitFetch /\ [][NextFetch]_vars

\* The scrape is sequential code: a step that can be taken is taken.
FairSpecFetch == SpecFetch /\ WF_vars(NextFetch)

\* The pieces links are put together from
UrlPieces ==
  {SUBJECT, <<"/">>, <<"1">>, <<"2">>, <<"\\">>, <<"d">>, <<"x">>, <<"?">>}

RECURSIVE Joined(_)
\* The strings that are n pieces in a row
Joined(n) ==
  IF n = 0 THEN {<<>>}
  ELSE {s \o p : s \in Joined(n - 1), p \in UrlPieces}

Links == UNION {Joined(n) : n \in 0..MaxUrlParts}

InitIds ==
  /\ x_href \in {None} \cup {Some(u) : u \in Links}
  /\ x_url = <<>>
  /\ x_id = None
  /\ x_pc = "parse"
  /\ FetchIdle
  /\ OthersIdle
  /\ RenderIdle

NextIds == ParseLink

SpecIds == InitIds /\ [][NextIds]_vars

TITLE == <<"T">>

TITLE_SPACED == <<"a", " ", "b">>

RAW_PUB == <<"A", " ", "/", " ", "P", " ", "/", " ", "2", "0", "2", "0">>

\* The records the JSON file is made of: the identifier, the source URL and
\* the title each present or not, the image reference remote (with and
\* without extension), local (present and missing), None and empty; the
\* first and the sixth derive the same cache path, as do the second and the
\* seventh, and the fourth and the eighth.
BookPool ==
  { Book(TITLE, URL_1, Some(REMOTE_PNG), Some(<<"1">>), Some(RAW_PUB)),
    Book(TITLE, URL_1, Some(REMOTE_NOEXT), None, None),
    Book(TITLE_SPACED, <<>>, Some(REMOTE_PNG), None, Some(RAW_PUB)),
    Book(<<>>, <<>>, None, Some(<<"1">>), None),
    Book(<<>>, <<>>, Some(<<>>), None, None),
    Book(TITLE, URL_1, Some(LOCAL_PRESENT), Some(<<"1">>), None),
    Book(TITLE, URL_1, Some(LOCAL_MISSING), None, None),
    Book(TITLE, <<>>, Some(REMOTE_NOEXT), Some(<<"1">>), None) }

BookLists == UNION {[1..n -> BookPool] : n \in 0..MaxBooks}

\* The file system at the start: the user's own picture, and a cache
\* directory that is missing, empty, or holds one cover of an earlier run.
FileSeeds ==
  { [dir |-> FALSE, files |-> {LOCAL_PRESENT}],
    [dir |-> TRUE, files |-> {LOCAL_PRESENT}],
    [dir |-> TRUE,
     files |-> {LOCAL_PRESENT, PathJoin(IMG_DIR, <<"1">> \o <<".", "p", "n", "g">>)}] }

OUT_MD == <<"o", "u", "t", ".", "m", "d">>

OUT_BARE == <<"o", "u", "t">>

InitRender ==
  /\ input \in BookLists
  /\ books = input
  /\ output_path = OUT_MD
  /\ mode \in {"main", "call"}
  /\ \E seed \in FileSeeds : files = seed.files /\ img_dir_exists = seed.dir
  /\ run = IF mode = "main" THEN 1 ELSE 2
  /\ r_pc = IF mode = "main" THEN "attach" ELSE "call"
  /\ skip_download = FALSE
  /\ LocalsAtStart
  /\ FetchIdle
  /\ IdsIdle
  /\ OthersIdle

NextRender ==
  \/ AttachExisting
  \/ SkipDownload
  \/ NothingToDownload
  \/ StartDownload
  \/ CallDownloadImages
  \/ DlNoCover
  \/ DlReuse
  \/ DlBeginRetries
  \/ DlAttemptOk
  \/ DlAttemptFail
  \/ DlGiveUp
  \/ DlReturn
  \/ \E c \in 1..2 : Paginate(c, 1)
  \/ WritePage
  \/ FinishRun
  \/ Rerun

SpecRender == InitRender /\ [][NextRender]_vars

\* A JSON file of n records told apart by their titles, none with an image
NumberedBooks(n) == [i \in 1..n |-> Book(Digits(i), <<>>, None, None, None)]

\* The render run from the page chunking on, for any number of records and
\* any --columns and --rows-per-page.
InitPages ==
  /\ \E n \in 0..MaxPageBooks : input = NumberedBooks(n)
  /\ books = input
  /\ output_path \in {OUT_MD, OUT_BARE}
  /\ mode = "main"
  /\ files = {} /\ img_dir_exists = FALSE
  /\ run = 1
  /\ r_pc = "paginate"
  /\ skip_download = TRUE
  /\ LocalsAtStart
  /\ FetchIdle
  /\ IdsIdle
  /\ OthersIdle

NextPages ==
  \/ \E c \in (-1)..MaxGeometry, r \in (-1)..MaxGeometry : Paginate(c, r)
  \/ WritePage
  \/ FinishRun

SpecPages == InitPages /\ [][NextPages]_vars

HREF_1 == SUBJECT \o <<"1", "/", "?", "x">>

RATING_OK == <<"8", ".", "5">>

RATING_WHOLE == <<"9">>

RATING_NOT_A_NUMBER == <<"N", "/", "A">>

COUNT_TEXT == <<"(", "1", "2", ")">>

COUNT_BACKSLASH_D == <<"(", "\\", "d", ")">>

PUB_TWO == <<"A", " ", "/", " ", "P">>

SUMMARY_TEXT == <<"S">>

DATE_TEXT == <<"2", "0", "2", "0", "-", "0", "1">>

\* What the selectors of parse_books find in one li.subject-item: the title
\* anchor (its text and its href), the src of the cover image, the text of
\* the .pub element, of the rating element and of the count element, the
\* <p> elements (their classes and their text) and the text of the date
\* element; None where the selector finds nothing.
Item(title_tag, cover_src, pub, rating_nums, rating_people, paragraphs, date) ==
  [title_tag |-> title_tag, cover_src |-> cover_src, pub |-> pub,
   rating_nums |-> rating_nums, rating_people |-> rating_people,
   paragraphs |-> paragraphs, date |-> date]

Anchor(text, href) == Some([text |-> text, href |-> href])

\* The items pages are made of: a complete one, an empty one, one whose
\* anchor has no href and whose only <p> is metadata, and items whose rating
\* element holds a text that is not a number, holds no text, and whose count
\* element holds a backslash and a letter d.
ItemPool ==
  { Item(Anchor(TITLE, Some(HREF_1)), Some(REMOTE_PNG), Some(RAW_PUB),
         Some(RATING_OK), Some(COUNT_TEXT),
         <<[classes |-> {"pub"}, text |-> RAW_PUB],
           [classes |-> {}, text |-> SUMMARY_TEXT]>>,
         Some(DATE_TEXT)),
    Item(None, None, None, None, None, <<>>, None),
    Item(Anchor(TITLE_SPACED, None), None, Some(PUB_TWO), Some(RATING_WHOLE),
         None, <<[classes |-> {"pub"}, text |-> PUB_TWO],
                 [classes |-> {}, text |-> <<>>]>>, None),
    Item(Anchor(TITLE, Some(HREF_1)), None, None, Some(RATING_NOT_A_NUMBER),
         None, <<>>, None),
    Item(Anchor(TITLE, Some(HREF_1)), None, None, Some(<<>>), None, <<>>,
         None),
    Item(Anchor(TITLE, Some(HREF_1)), None, None, Some(RATING_OK),
         Some(COUNT_BACKSLASH_D), <<>>, None) }

\* parse_books on a page of up to MaxItems items
InitParse ==
  /\ items \in UNION {[1..n -> ItemPool] : n \in 0..MaxItems}
  /\ next_link \in BOOLEAN
  /\ item_i = 1
  /\ p_books = <<>>
  /\ p_pc = "parse"
  /\ PubIdle /\ KeyIdle
  /\ FetchIdle
  /\ IdsIdle
  /\ RenderIdle

NextParse ==
  \/ ParseItem
  \/ ParseItemRaises
  \/ ParseReturn

SpecParse == InitParse /\ [][NextParse]_vars

\* The pieces publication lines are put together from
PubPieces ==
  {<<"A", "/">>, <<"B">>, <<" ">>, <<"/">>, <<"C", " ", "/", " ">>}

RECURSIVE JoinedFrom(_, _)
\* The strings that are n of the given pieces in a row
JoinedFrom(pieces, n) ==
  IF n = 0 THEN {<<>>}
  ELSE {s \o p : s \in JoinedFrom(pieces, n - 1), p \in pieces}

ONLY_PUBLISHER == <<"O", "n", "l", "y", "P", "u", "b", "l", "i", "s", "h", "e", "r">>

PUB_FOUR ==
  <<"A", " ", "/", " ", "B", " ", "/", " ", "P", "u", "b", " ", "/", " ", "2", "0", "2", "0">>

PubTexts ==
  UNION {JoinedFrom(PubPieces, n) : n \in 0..MaxPubParts}
    \cup {ONLY_PUBLISHER, PUB_FOUR, RAW_PUB, PUB_TWO}

\* parse_pub_info called on a publication line
InitPub ==
  /\ pub_text \in PubTexts
  /\ pub_info = None
  /\ pub_pc = "call"
  /\ ParseIdle /\ KeyIdle
  /\ FetchIdle
  /\ IdsIdle
  /\ RenderIdle

NextPub == ParsePubInfo

SpecPub == InitPub /\ [][NextPub]_vars

ID_SPACED == <<"a", " ", "b">>

TITLE_BLANK == <<" ", " ">>

\* A title of one character outside [A-Za-z0-9._-]
TITLE_HAN == <<"U+4E66">>

REMOTE_DOTTED_DIR == <<"h", "t", "t", "p", "s", ":", "/", "/", "i", ".", "x", "/", "c">>

\* The books expected_cover_path is called on: every combination of an
\* identifier (None, empty, plain, with a space), a source URL (empty or
\* not), a title (empty, blank, plain, with a space, non-ASCII) and an image
\* reference (None, empty, remote with extension and query string, remote
\* without extension, remote with a dot in the host only, local).
KeyBooks ==
  { Book(t, u, c, i, None) :
      t \in {<<>>, TITLE_BLANK, TITLE, TITLE_SPACED, TITLE_HAN},
      u \in {<<>>, URL_1, URL_2},
      c \in {None, Some(<<>>), Some(REMOTE_PNG), Some(REMOTE_NOEXT),
             Some(REMOTE_DOTTED_DIR), Some(LOCAL_PRESENT)},
      i \in {None, Some(<<>>), Some(<<"1">>), Some(ID_SPACED)} }

\* expected_cover_path called up to MaxCalls times on one book
InitKey ==
  /\ k_book \in KeyBooks
  /\ k_paths = <<>>
  /\ k_pc = "call"
  /\ ParseIdle /\ PubIdle
  /\ FetchIdle
  /\ IdsIdle
  /\ RenderIdle

NextKey == DerivePath

SpecKey == InitKey /\ [][NextKey]_vars


\* ------------------------------------------------------------------------
\* Properties of fetch_wish_list
\* ------------------------------------------------------------------------
RECURSIVE ConcatPages(_, _)
\* The records of pages 1..k of src, in page order, each in document order.
ConcatPages(src, k) ==
  IF k = 0 THEN <<>>
  ELSE ConcatPages(src, k - 1)
         \o parse_books(k, PageAt(src, (k - 1) * PAGINATION_SIZE)).books

IsPrefix(s, t) == Len(s) <= Len(t) /\ SubSeq(t, 1, Len(s)) = s

\* Pages 1..k each hold a record and report has_next, page k+1 is empty.
ShapeK(k) ==
  /\ \A p \in 1..k :
       LET pg == PageAt(source, (p - 1) * PAGINATION_SIZE)
       IN  pg.n >= 1 /\ pg.has_next
  /\ PageAt(source, k * PAGINATION_SIZE).n = 0

Finished == f_pc \in {"done", "saved"}

Requested(offset) == \E i \in 1..Len(requests) : requests[i] = offset

\* What C1 promises of a run over a source of shape k once it has stopped.
ExactlyPagesUpTo(k) ==
  /\ IsPrefix(books_out, ConcatPages(source, k))
  /\ Finished => books_out = ConcatPages(source, k)
  /\ ~Requested((k + 1) * PAGINATION_SIZE)

\* No cap is in effect (None or 0), or the cap is at least k.
CapAllows(k) == ~TruthyInt(max_pages) \/ max_pages[1] >= k

\* C1 as stated: over every source of shape k (pages 1..k non-empty with
\* has_next, page k+1 empty) the driver yields exactly the records of pages
\* 1..k and never requests page k+2, whether no page cap or a positive page
\* cap is configured.
C1_AsStated ==
  (max_pages = None \/ max_pages[1] > 0) =>
    \A k \in 1..MaxSrcPages : ShapeK(k) => ExactlyPagesUpTo(k)

\* C1 amended: over every source of shape k, when no page cap below k is in
\* effect, the driver never yields anything but a prefix of the records of
\* pages 1..k, has yielded exactly those records when it stops, never
\* requests page k+2, and every run ends (the generator is exhausted, or a
\* page fetch raised).
C1_PaginationTermination ==
  \A k \in 1..MaxSrcPages :
    (ShapeK(k) /\ CapAllows(k))
      => ([]ExactlyPagesUpTo(k) /\ <>(Finished \/ f_pc = "raised"))

\* C1 witness: a source of shape 2 walked to the end, the empty third page
\* fetched, both pages' records yielded.
C1_Witness ==
  /\ ShapeK(2) /\ CapAllows(2)
  /\ f_pc = "done" /\ page = 3
  /\ books_out = ConcatPages(source, 2)

\* C2: with a positive page cap c, the number of page fetches of a run never
\* exceeds c, whatever has_next the pages report and however long the source.
C2_PageCap ==
  (max_pages # None /\ max_pages[1] > 0) => Len(requests) <= max_pages[1]

\* C2 witness: a cap of 2 stops the driver after two fetches although the
\* second page holds records and reports a next page.
C2_Witness ==
  /\ max_pages = Some(2)
  /\ f_pc = "done" /\ Len(requests) = 2
  /\ has_next /\ page_books # <<>>
  /\ PageAt(source, 2 * PAGINATION_SIZE).n > 0

NoRepeatedRequest ==
  \A i, j \in 1..Len(requests) : i # j => requests[i] # requests[j]

\* C9: a page-fetch failure is fatal and never retried: once a fetch has
\* raised the run stays failed, no further page is requested, no offset is
\* ever requested twice, and no output file is written.
C9_FetchFailureFatal ==
  /\ [](NoRepeatedRequest /\ (f_pc = "raised" => output_file = None))
  /\ [][f_pc = "raised" =>
          (f_pc' = "raised" /\ requests' = requests /\ output_file' = None)]_vars

\* C9 witness: the fetch of the second page raised after the first page's
\* records were yielded; nothing was written.
C9_Witness ==
  /\ f_pc = "raised" /\ Len(requests) = 2 /\ books_out # <<>>
  /\ output_file = None

\* The page the i-th fetch of the run was answered with
FetchedPage(i) == PageAt(source, requests[i])

\* C16: the i-th page fetch of a run uses offset 15 * (i - 1), the first
\* offset 0; the offsets requested are strictly increasing, none twice; and
\* every fetch but the first follows a page that was fetched and parsed
\* with at least one record and has_next true, at a point where the cap was
\* not reached.
C16_OffsetCursor ==
  /\ \A i \in 1..Len(requests) : requests[i] = PAGINATION_SIZE * (i - 1)
  /\ \A i, j \in 1..Len(requests) : i < j => requests[i] < requests[j]
  /\ \A i \in 2..Len(requests) :
       /\ i - 1 <= page
       /\ FetchedPage(i - 1).n >= 1
       /\ FetchedPage(i - 1).has_next
       /\ max_pages \in {None, Some(0)} \/ i - 1 < max_pages[1]
  /\ f_pc = "fetch" => start = PAGINATION_SIZE * Len(requests)

\* C16 witness: three pages were fetched, at offsets 0, 15 and 30, under a
\* cap of 3.
C16_Witness ==
  /\ requests = <<0, 15, 30>> /\ max_pages = Some(3) /\ f_pc = "done"
  /\ page = 3

\* The records of the page at hand that have been yielded
YieldedOfPage ==
  IF f_pc = "yield" THEN SubSeq(page_books, 1, yi - 1)
  ELSE IF f_pc = "fetch" \/ page = 0 THEN <<>>
  ELSE page_books

\* C17: the records yielded so far are a prefix of the records of the pages
\* fetched so far, in fetch order and each page in document order (they are
\* the whole of the earlier pages and the part of the page at hand that has
\* been gone through); when the driver has stopped, every record of the last
\* page has been yielded; a page is fetched only when the page before it
\* reported has_next and all its records have been yielded.
C17_YieldOrder ==
  /\ [](/\ IsPrefix(books_out, ConcatPages(source, page))
        /\ f_pc \in {"yield", "done", "saved"} =>
             books_out = ConcatPages(source, page - 1) \o YieldedOfPage
        /\ f_pc \in {"done", "saved"} =>
             books_out = ConcatPages(source, page)
        /\ \A i \in 1..(Len(requests) - 1) : FetchedPage(i).has_next)
  /\ [][(requests' # requests /\ requests # <<>>) =>
          (has_next /\ yi > Len(page_books)
             /\ books_out = ConcatPages(source, page))]_vars

\* C17 witness: the driver stopped at a second page that reports no next
\* page, with the two records of each page yielded in order.
C17_Witness ==
  /\ f_pc = "done" /\ page = 2 /\ ~has_next
  /\ books_out = <<<<1, 1>>, <<1, 2>>, <<2, 1>>, <<2, 2>>>>
  /\ PageAt(source, 2 * PAGINATION_SIZE).n > 0

\* ------------------------------------------------------------------------
\* Properties of parse_books
\* ------------------------------------------------------------------------
\* C11: parse_books never fails, whatever the markup of the page; a field
\* whose element is missing is None in the record, a rating whose text is
\* not a number is None in the record, and when parse_books returns there is
\* one record for every item of the page, in document order.
C11_TolerantParsing ==
  /\ p_pc # "raised"
  /\ \A i \in 1..Len(p_books) :
       /\ items[i].rating_nums = None => p_books[i].rating = None
       /\ (items[i].rating_nums # None /\ ~IsDecimal(items[i].rating_nums[1]))
            => p_books[i].rating = None
       /\ items[i].rating_people = None => p_books[i].rating_count = None
       /\ items[i].cover_src = None => p_books[i].cover_image = None
       /\ items[i].pub = None => p_books[i].raw_pub = None
       /\ items[i].date = None => p_books[i].added_at = None
       /\ items[i].paragraphs = <<>> => p_books[i].summary = None
       /\ items[i].title_tag = None => p_books[i].book_id = None
  /\ p_pc = "returned" => Len(p_books) = Len(items)

\* ------------------------------------------------------------------------
\* Properties of parse_pub_info
\* ------------------------------------------------------------------------
\* The positions of text that bound its segments: before its first
\* character, every "/", after its last character
Cuts(text) ==
  {0} \cup {i \in 1..Len(text) : text[i] = "/"} \cup {Len(text) + 1}

\* The segments of text between consecutive "/", trimmed, the empty ones
\* dropped, in order
Segments(text) ==
  LET cuts == Ascending(Cuts(text))
      raw == [k \in 1..(Len(cuts) - 1) |->
                strip(SubSeq(text, cuts[k] + 1, cuts[k + 1] - 1))]
  IN  SelectSeq(raw, NonEmptyStr)

\* C14: parse_pub_info returns, for every publication line, with s the
\* trimmed non-empty segments between "/" and m their number: ([], None,
\* None) for m = 0; ([], s[0], None) for m = 1; ([s[0]], s[1], None) for
\* m = 2; (s[0..m-3], s[m-2], s[m-1]) for m >= 3; "A / B / Pub / 2020"
\* gives (["A", "B"], "Pub", "2020"), "OnlyPublisher" gives ([],
\* "OnlyPublisher", None) and "" gives ([], None, None).
C14_PubSplit ==
  pub_pc = "returned" =>
    LET seg == Segments(pub_text)
        m == Len(seg)
    IN  /\ pub_info # None
        /\ m = 0 => pub_info[1] =
             [authors |-> <<>>, publisher |-> None, publish_date |-> None]
        /\ m = 1 => pub_info[1] =
             [authors |-> <<>>, publisher |-> Some(seg[1]),
              publish_date |-> None]
        /\ m = 2 => pub_info[1] =
             [authors |-> <<seg[1]>>, publisher |-> Some(seg[2]),
              publish_date |-> None]
        /\ m >= 3 => pub_info[1] =
             [authors |-> [k \in 1..(m - 2) |-> seg[k]],
              publisher |-> Some(seg[m - 1]), publish_date |-> Some(seg[m])]
        /\ pub_text = PUB_FOUR => pub_info[1] =
             [authors |-> <<<<"A">>, <<"B">>>>,
              publisher |-> Some(<<"P", "u", "b">>),
              publish_date |-> Some(<<"2", "0", "2", "0">>)]
        /\ pub_text = ONLY_PUBLISHER => pub_info[1] =
             [authors |-> <<>>, publisher |-> Some(ONLY_PUBLISHER),
              publish_date |-> None]
        /\ pub_text = <<>> => pub_info[1] =
             [authors |-> <<>>, publisher |-> None, publish_date |-> None]

\* C14 witness: the line "A/C / /B", whose four pieces between the "/" have
\* blanks around them and an empty one among them, has been split into one
\* author, a publisher and a date.
C14_Witness ==
  /\ pub_pc = "returned"
  /\ pub_text = <<"A", "/", "C", " ", "/", " ", "/", "B">>
  /\ pub_info = Some([authors |-> <<<<"A">>>>, publisher |-> Some(<<"C">>),
                      publish_date |-> Some(<<"B">>)])

\* ------------------------------------------------------------------------
\* Properties of expected_cover_path
\* ------------------------------------------------------------------------
\* The filesystem-safe token of s: s trimmed, every maximal run of characters
\* outside [A-Za-z0-9._-] turned into one "_"
Sanitized(s) ==
  LET t == strip(s)
      pos == Ascending({i \in 1..Len(t) :
                          \/ t[i] \in SafeChars
                          \/ i = 1
                          \/ t[i - 1] \in SafeChars})
  IN  [k \in 1..Len(pos) |->
         IF t[pos[k]] \in SafeChars THEN t[pos[k]] ELSE "_"]

\* The key base: the identifier when there is one, else the hash of the
\* source URL when there is one, else the title
KeyBase(b) ==
  IF b.book_id \notin {None, Some(<<>>)} THEN b.book_id[1]
  ELSE IF b.douban_url # <<>> THEN md5_hex10(b.douban_url)
  ELSE b.title

\* The token of the file name: the sanitized key base, "cover" when that is
\* empty
KeyToken(b) ==
  IF Sanitized(KeyBase(b)) = <<>> THEN COVER ELSE Sanitized(KeyBase(b))

\* The extension of an image reference: of what precedes its "?", the last
\* path component from its last dot on, when something other than dots
\* precedes that dot in the component; ".jpg" when there is none
RefExtension(ref) ==
  LET path == IF ref = None THEN <<>>
              ELSE SubSeq(ref[1], 1,
                          IF \E i \in 1..Len(ref[1]) : ref[1][i] = "?"
                            THEN IndexOf(ref[1], "?") - 1 ELSE Len(ref[1]))
      name == SubSeq(path, RIndexOf(path, "/") + 1, Len(path))
      dot == RIndexOf(name, ".")
  IN  IF dot > 1 /\ \E k \in 1..(dot - 1) : name[k] # "."
        THEN SubSeq(name, dot, Len(name))
        ELSE JPG

PNG == <<".", "p", "n", "g">>

\* C15: the path expected_cover_path returns is the cache directory, then the
\* sanitized key base (identifier, else hash of the source URL, else title;
\* "cover" when the sanitized base is empty), then the extension of the image
\* reference with its query string stripped (".jpg" when it has none); and
\* every call on the same book returns the same path.
C15_CacheKey ==
  \A k \in 1..Len(k_paths) :
    /\ k_paths[k] = IMG_DIR \o <<"/">> \o KeyToken(k_book)
                       \o RefExtension(k_book.cover_image)
    /\ k_paths[k] = k_paths[1]
    /\ k_book = Book(TITLE, URL_1, Some(REMOTE_PNG), Some(<<"1">>), None)
         => k_paths[k] = IMG_DIR \o <<"/", "1">> \o PNG
    /\ k_book = Book(TITLE, URL_1, Some(REMOTE_NOEXT), None, None)
         => k_paths[k] = IMG_DIR \o <<"/">> \o md5_hex10(URL_1) \o JPG
    /\ k_book = Book(TITLE_SPACED, <<>>, Some(LOCAL_PRESENT), None, None)
         => k_paths[k] = IMG_DIR \o <<"/", "a", "_", "b">> \o PNG
    /\ k_book = Book(TITLE_BLANK, <<>>, None, None, None)
         => k_paths[k] = IMG_DIR \o <<"/">> \o COVER \o JPG

\* C15 witness: a book without identifier, with a source URL and a title,
\* has twice been given the path made of the hash of its URL and ".png".
C15_Witness ==
  /\ Len(k_paths) = 2
  /\ k_book = Book(TITLE, URL_2, Some(REMOTE_PNG), None, None)
  /\ k_paths[2] = IMG_DIR \o <<"/">> \o md5_hex10(URL_2) \o PNG

\* ------------------------------------------------------------------------
\* Properties of the acquisition stage
\* ------------------------------------------------------------------------
\* The fetch attempts made for the record at position i in this run
Attempts(i) ==
  Cardinality({k \in 1..Len(fetch_log) : fetch_log[k].book = i})

EveryAttemptRaised(i) ==
  \A k \in 1..Len(fetch_log) : fetch_log[k].book = i => ~fetch_log[k].ok

BeingRetried(i) == r_pc = "dl_try" /\ batch[dl_i] = i

\* The cache path derived for the record at position i
DerivedPath(i) == expected_cover_path(input[i], IMG_DIR)

\* C3: for a record with an image reference whose cache file is missing and
\* whose every fetch attempt raises, exactly max_retries attempts are made:
\* never more; while its retry loop runs it is in no failure list and keeps
\* its reference; once the loop is left it has had max_retries attempts, is
\* in the failure list and its image field is None.
C3_RetryExhaustion ==
  \A i \in 1..Len(books) :
    (TruthyStr(input[i].cover_image) /\ EveryAttemptRaised(i)) =>
      /\ Attempts(i) <= max_retries
      /\ BeingRetried(i) =>
           /\ Attempts(i) = tries
           /\ i \notin Range(failures)
           /\ books[i].cover_image = input[i].cover_image
      /\ i \in Range(failures) =>
           Attempts(i) = max_retries /\ books[i].cover_image = None
      /\ (Attempts(i) > 0 /\ ~BeingRetried(i)) =>
           Attempts(i) = max_retries /\ i \in Range(failures)

\* C3 witness: in a run of main a remote reference was tried three times,
\* every time in vain, and the record then marked failed.
C3_Witness ==
  \E i \in 1..Len(books) :
    /\ mode = "main" /\ max_retries = 3
    /\ IsRemote(OrEmpty(input[i].cover_image))
    /\ Attempts(i) = 3 /\ EveryAttemptRaised(i)
    /\ i \in Range(failures) /\ books[i].cover_image = None

\* The acquirer attached to record i, in the first run, its cache file.
SucceededInFirstRun(i) ==
  /\ after1[i].cover_image = Some(DerivedPath(i))
  /\ DerivedPath(i) \in files

AcquisitionOver == r_pc \in {"paginate", "write", "end"}

\* C4: when the acquisition stage runs a second time on the same records
\* against the same cache directory, no fetch is attempted for a record
\* whose acquisition succeeded in the first run, and the record ends with
\* the local path it had after the first run.
C4_IdempotentReuse ==
  (mode = "main" /\ run = 2 /\ ~skip_download) =>
    \A i \in 1..Len(books) :
      SucceededInFirstRun(i) =>
        /\ Attempts(i) = 0
        /\ AcquisitionOver => books[i].cover_image = after1[i].cover_image

\* C4 witness: the second run is over; the first had to fetch the cover of a
\* record (no cache seed holds the file of REMOTE_NOEXT) and succeeded.
C4_Witness ==
  /\ mode = "main" /\ run = 2 /\ ~skip_download /\ r_pc = "end"
  /\ \E i \in 1..Len(books) :
       /\ input[i].cover_image = Some(REMOTE_NOEXT)
       /\ SucceededInFirstRun(i)
       /\ books[i].cover_image = Some(DerivedPath(i))

DownloadReturned == r_pc \in {"paginate", "write", "end", "returned"}

\* C5: when download_images returns, every record of the batch has been
\* processed, a record of the batch is in the failure list iff its image
\* field is None, and every other record of the batch has its derived cache
\* path as image field, with a file at that path.
C5_FailureBookkeeping ==
  DownloadReturned =>
    /\ dl_i = Len(batch) + 1
    /\ \A j \in 1..Len(batch) :
         LET i == batch[j]
         IN  /\ i \in Range(failures) <=> books[i].cover_image = None
             /\ i \notin Range(failures) =>
                  /\ books[i].cover_image = Some(DerivedPath(i))
                  /\ DerivedPath(i) \in files

\* C5 witness: the first record of a batch failed for good, the second was
\* fetched after it.
C5_Witness ==
  /\ DownloadReturned /\ Len(batch) = 2
  /\ failures = <<batch[1]>>
  /\ Attempts(batch[1]) = max_retries /\ max_retries > 0
  /\ fetch_log[Len(fetch_log)] = [book |-> batch[2], ok |-> TRUE]
  /\ books[batch[2]].cover_image = Some(DerivedPath(batch[2]))

\* C6: after the acquisition stage of a run of main that does not skip the
\* download, no record holds a remote URL, and every record whose reference
\* was remote, local or None holds None or a local path.
C6_NoRemoteAfterAcquisition ==
  (mode = "main" /\ ~skip_download /\ AcquisitionOver) =>
    \A i \in 1..Len(books) :
      /\ ~IsRemote(OrEmpty(books[i].cover_image))
      /\ input[i].cover_image # Some(<<>>) =>
           \/ books[i].cover_image = None
           \/ TruthyStr(books[i].cover_image)

\* C6 witness: rendering begins after one remote reference was fetched and
\* another was given up.
C6_Witness ==
  /\ mode = "main" /\ ~skip_download /\ r_pc = "paginate"
  /\ \E i, j \in 1..Len(books) :
       /\ IsRemote(OrEmpty(input[i].cover_image))
       /\ books[i].cover_image = Some(DerivedPath(i))
       /\ IsRemote(OrEmpty(input[j].cover_image))
       /\ books[j].cover_image = None

\* download_images is at work on its batch.
InDownload == r_pc \in {"dl_book", "dl_try"}

\* The records of the batch the loop of download_images has dealt with
Processed ==
  IF InDownload \/ r_pc \in {"paginate", "write", "end", "returned"}
    THEN {batch[j] : j \in 1..(dl_i - 1)}
    ELSE {}

\* C12: a record of the batch whose image field is None or empty when the
\* loop of download_images comes to it is added to the failure list in that
\* very step, with no fetch attempt and no sleep; such a record, once dealt
\* with, is in the failure list and has had no fetch attempt and no sleep.
C12_NoImageNoFetch ==
  /\ [](\A i \in Processed :
          (mode = "call" /\ ~TruthyStr(input[i].cover_image)) =>
            /\ i \in Range(failures)
            /\ Attempts(i) = 0
            /\ i \notin Range(sleep_log))
  /\ [][(InBatch /\ ~TruthyStr(books[Cur].cover_image)) =>
          /\ failures' = Append(failures, Cur)
          /\ fetch_log' = fetch_log
          /\ sleep_log' = sleep_log
          /\ dl_i' = dl_i + 1]_vars

\* C12 witness: download_images returned; a record without image and a
\* record with an empty image are in the failure list.
C12_Witness ==
  /\ mode = "call" /\ r_pc = "returned"
  /\ \E i, j \in 1..Len(books) :
       /\ input[i].cover_image = None /\ i \in Range(failures)
       /\ input[j].cover_image = Some(<<>>) /\ j \in Range(failures)
       /\ Attempts(i) = 0 /\ Attempts(j) = 0

\* b and c are the same but for the image reference
SameButCover(b, c) == [b EXCEPT !.cover_image = c.cover_image] = c

\* C13: the acquisition stage changes no field of a record other than the
\* image reference, and adds, removes and reorders no record: the books of
\* the run are, position by position, the records that were loaded, and
\* the batch of download_images does not change while it is at work.
C13_FrameCondition ==
  /\ [](/\ Len(books) = Len(input)
        /\ \A i \in 1..Len(books) : SameButCover(books[i], input[i]))
  /\ [][InDownload => batch' = batch]_vars

\* C13 witness: of two different records the pre-pass gave one its cache
\* file and download_images fetched the other's.
C13_Witness ==
  /\ mode = "main" /\ r_pc = "paginate" /\ Len(books) = 2
  /\ input[1] # input[2]
  /\ attached # {} /\ \E k \in 1..Len(fetch_log) : fetch_log[k].ok
  /\ \A i \in 1..2 :
       /\ books[i].cover_image # input[i].cover_image
       /\ books[i].raw_pub = input[i].raw_pub

\* The records whose derived cache path exists
PathExists == {i \in 1..Len(input) : DerivedPath(i) \in files}

\* C18: in a run of main no fetch is made before attach_existing_images has
\* gone through the whole list; when it has, it has attached to exactly the
\* records whose derived cache path exists its path, and the count it
\* returned is the number of these records; a record it attached a file to
\* is not handed to download_images and is never fetched in that run.
C18_PrePassFirst ==
  mode = "main" =>
    /\ r_pc = "attach" => (fetch_log = <<>> /\ sleep_log = <<>>)
    /\ r_pc = "select" =>
         /\ attached = PathExists
         /\ reused = Cardinality(PathExists)
         /\ \A i \in attached : books[i].cover_image = Some(DerivedPath(i))
    /\ r_pc # "attach" => reused = Cardinality(attached)
    /\ \A i \in attached : Attempts(i) = 0 /\ i \notin Range(batch)

\* C18 witness: a first run is over in which the pre-pass attached a cache
\* file to a record and download_images then fetched the cover of another.
C18_Witness ==
  /\ mode = "main" /\ run = 1 /\ r_pc = "end"
  /\ reused >= 1 /\ Cardinality(attached) = reused
  /\ \E i \in 1..Len(books) :
       i \notin attached /\ Attempts(i) > 0
         /\ books[i].cover_image = Some(DerivedPath(i))

\* The place of record i in the batch
BatchIndex(i) == CHOOSE j \in 1..Len(batch) : batch[j] = i

\* What is left for download_images to do: the records of the batch not yet
\* dealt with, each weighed with more than the passes its retry loop can
\* make, less the passes made for the record at hand.
DlMeasure ==
  IF r_pc = "dl_book"
    THEN (Len(batch) + 1 - dl_i) * (max_retries + 3) + 1
  ELSE IF r_pc = "dl_try"
    THEN (Len(batch) + 1 - dl_i) * (max_retries + 3) - tries
  ELSE 0

\* C19: at most max_retries fetch attempts are made for a record and none
\* after its first success; the attempts are made record by record in the
\* order of the batch, for records of the batch only; at most max_retries x
\* (batch size) attempts are made in all; and the call terminates: every
\* step of download_images lowers a measure that is never negative.
C19_BoundedSerial ==
  /\ [](/\ \A i \in 1..Len(books) : Attempts(i) <= max_retries
        /\ \A k \in 1..Len(fetch_log) : fetch_log[k].book \in Range(batch)
        /\ \A k, l \in 1..Len(fetch_log) :
             k < l =>
               /\ ~(fetch_log[k].ok /\ fetch_log[l].book = fetch_log[k].book)
               /\ BatchIndex(fetch_log[k].book) <= BatchIndex(fetch_log[l].book)
        /\ Len(fetch_log) <= max_retries * Len(batch)
        /\ DlMeasure >= 0)
  /\ [][InDownload => DlMeasure' < DlMeasure]_vars

\* C19 witness: download_images returned after it gave up the first record
\* of its batch at the third attempt and fetched the second at its second
\* attempt.
C19_Witness ==
  /\ DownloadReturned /\ Len(batch) = 2 /\ max_retries = 3
  /\ Len(fetch_log) = 5
  /\ \A k \in 1..3 : fetch_log[k] = [book |-> batch[1], ok |-> FALSE]
  /\ fetch_log[4] = [book |-> batch[2], ok |-> FALSE]
  /\ fetch_log[5] = [book |-> batch[2], ok |-> TRUE]

\* Records i and j of the batch, i before j, derive the same cache path, and
\* a fetch for i succeeded.
AliasedAfterSuccess(i, j) ==
  /\ i \in Range(batch) /\ j \in Range(batch)
  /\ BatchIndex(i) < BatchIndex(j)
  /\ DerivedPath(i) = DerivedPath(j)
  /\ \E k \in 1..Len(fetch_log) : fetch_log[k] = [book |-> i, ok |-> TRUE]

\* The later record j was resolved by the exists-check: no attempt for it,
\* the same local path as i, no failure, one file written for the two.
AliasResolved(i, j) ==
  /\ Attempts(j) = 0
  /\ books[j].cover_image = Some(DerivedPath(j))
  /\ books[i].cover_image = books[j].cover_image
  /\ j \notin Range(failures)
  /\ Cardinality({k \in 1..Len(fetch_log) :
                    fetch_log[k].book \in {i, j} /\ fetch_log[k].ok}) = 1

\* C20 as stated: whenever two records of a batch derive the same cache path
\* and the fetch of the earlier one succeeded, the later one, once dealt
\* with, has been resolved by the exists-check.
C20_AsStated ==
  \A i, j \in 1..Len(books) :
    (AliasedAfterSuccess(i, j) /\ j \in Processed) => AliasResolved(i, j)

\* C20 amended: whenever two records of a batch derive the same cache path,
\* the fetch of the earlier one succeeded and the later one has a non-empty
\* image reference, the later one, once dealt with, has been resolved by the
\* exists-check: no fetch attempt was made for it, both records hold the
\* same local path, it is not in the failure list, and one file was written
\* for the pair.
C20_CacheAliasing ==
  \A i, j \in 1..Len(books) :
    (AliasedAfterSuccess(i, j) /\ j \in Processed
       /\ TruthyStr(input[j].cover_image))
      => AliasResolved(i, j)

\* C20 witness: in a run of main two different records derive one cache
\* path; the first was fetched, the second took the file without a fetch.
C20_Witness ==
  /\ mode = "main" /\ r_pc = "paginate" /\ batch = <<1, 2>>
  /\ input[1] # input[2]
  /\ AliasedAfterSuccess(1, 2)
  /\ AliasResolved(1, 2)

\* ------------------------------------------------------------------------
\* Properties of the renderer
\* ------------------------------------------------------------------------
\* The cell of the m-th record of a page in the table written for it
CellOf(table, m) ==
  table.rows[((m - 1) \div table.cols) + 1][((m - 1) % table.cols) + 1]

\* The pages of this run that have been written
WrittenPages ==
  IF r_pc = "write" THEN 1..(idx - 1)
  ELSE IF r_pc = "end" THEN 1..Len(pages)
  ELSE {}

RECURSIVE Flatten(_)
\* The concatenation of a sequence of sequences
Flatten(ss) ==
  IF ss = <<>> THEN <<>>
  ELSE Flatten(SubSeq(ss, 1, Len(ss) - 1)) \o ss[Len(ss)]

Paginated == r_pc \in {"write", "end"}

CellCount(table) ==
  LET RECURSIVE Sum(_)
      Sum(r) == IF r = 0 THEN 0 ELSE Sum(r - 1) + Len(table.rows[r])
  IN  Sum(Len(table.rows))

\* C8: columns and rows per page are clamped to at least 1; the pages are
\* consecutive slices of the records whose concatenation is the whole list;
\* every page but the last holds columns x rows records, the last between 1
\* and that many; page 1 is written to the output path and page N > 1 to
\* <stem>_<N>/index<ext>, each with one cell per record; 14 records in 3
\* columns and 2 rows give pages of 6, 6, 2 at out.md, out_2/index.md,
\* out_3/index.md.
C8_PageChunking ==
  Paginated =>
    LET s == columns * rows_per_page
        ext == IF suffix(output_path) # <<>> THEN suffix(output_path) ELSE MD
    IN  /\ columns = (IF args.columns >= 1 THEN args.columns ELSE 1)
        /\ rows_per_page =
             (IF args.rows_per_page >= 1 THEN args.rows_per_page ELSE 1)
        /\ Flatten(pages) = books
        /\ \A k \in 1..Len(pages) :
             /\ pages[k] = SubSeq(books, (k - 1) * s + 1,
                                  (k - 1) * s + Len(pages[k]))
             /\ k < Len(pages) => Len(pages[k]) = s
             /\ k = Len(pages) => (1 <= Len(pages[k]) /\ Len(pages[k]) <= s)
        /\ \A k \in 1..Len(saved_paths) :
             /\ k = 1 => saved_paths[k] = output_path
             /\ k > 1 =>
                  saved_paths[k] =
                    stem(output_path) \o <<"_">> \o Digits(k) \o <<"/">>
                      \o INDEX \o ext
             /\ saved_paths[k] \in DOMAIN documents
             /\ CellCount(documents[saved_paths[k]]) = Len(pages[k])
        /\ r_pc = "end" =>
             /\ Len(saved_paths) = Len(pages)
             /\ DOMAIN documents = Range(saved_paths)
             /\ (Len(books) = 14 /\ columns = 3 /\ rows_per_page = 2
                   /\ output_path = OUT_MD) =>
                  /\ <<Len(pages[1]), Len(pages[2]), Len(pages[3])>> = <<6, 6, 2>>
                  /\ saved_paths =
                       <<<<"o", "u", "t", ".", "m", "d">>,
                         <<"o", "u", "t", "_", "2", "/", "i", "n", "d", "e", "x", ".", "m", "d">>,
                         <<"o", "u", "t", "_", "3", "/", "i", "n", "d", "e", "x", ".", "m", "d">>>>

\* C8 witness: 14 records in 3 columns and 2 rows have been written as three
\* pages.
C8_Witness ==
  /\ r_pc = "end" /\ Len(books) = 14 /\ columns = 3 /\ rows_per_page = 2
  /\ output_path = OUT_MD /\ Len(pages) = 3 /\ Len(saved_paths) = 3
  /\ Len(pages[3]) = 2

\* ------------------------------------------------------------------------
\* Properties of extract_book_id
\* ------------------------------------------------------------------------
DigitChars == {"0", "1", "2", "3", "4", "5", "6", "7", "8", "9"}

\* url holds "/subject/", decimal digits from there up to position j, and
\* "/" after them, the segment starting at position i.
SegmentAt(url, i, j) ==
  /\ i + Len(SUBJECT) <= j
  /\ j + 1 <= Len(url)
  /\ SubSeq(url, i, i + Len(SUBJECT) - 1) = SUBJECT
  /\ \A k \in (i + Len(SUBJECT))..j : url[k] \in DigitChars
  /\ url[j + 1] = "/"

\* The digit string of the first segment /subject/<digits>/ of url, None
\* when url has no such segment
SubjectDigits(url) ==
  LET hits == {i \in 1..Len(url) : \E j \in 1..Len(url) : SegmentAt(url, i, j)}
  IN  IF hits = {} THEN None
      ELSE LET i == CHOOSE h \in hits : \A g \in hits : h <= g
               j == CHOOSE e \in 1..Len(url) : SegmentAt(url, i, e)
           IN  Some(SubSeq(url, i + Len(SUBJECT), j))

\* C10: the identifier of a record is the digit string of the segment
\* /subject/<digits>/ of its source URL, and None when the URL has no such
\* segment.
C10_IdentifierExtraction ==
  x_pc = "parsed" => x_id = SubjectDigits(x_url)

====
